---- MODULE Spec2Model ----
(***************************************************************************)
(* Rainwater harvesting calculator: the RainwaterHarvester class           *)
(* (src/src/RainwaterSimulation.js) and the input wizard of App            *)
(* (src/unnamed/part_000).                                                 *)
(*                                                                         *)
(* Four specifications share the variables below:                         *)
(*   SpecOpt  optimizeStorageCapacity, one loop iteration per step        *)
(*   SpecSim  simulateRainfall, one Box-Muller sample per step            *)
(*   SpecAgg  getWeeklyData / getMonthlyData on drawn series              *)
(*   SpecApp  the wizard: input change, Next, Back, view mode, again      *)
(* Variables a specification does not use keep their initial value.       *)
(***************************************************************************)
EXTENDS Integers, Sequences, FiniteSets, TLC

VARIABLES
    \* optimizeStorageCapacity: arguments, locals, loop position, return value
    harvestedWater, dailyConsumption, currentStorage, maxStorageNeeded,
    overflow, optDay, optPc, optResult,
    \* simulateRainfall: arguments, loop counter, the array being built
    days, meanRainfall, stdDev, rainfallData, simI, simPc,
    \* the harvester's fields, and the outcomes of the two summaries
    roofArea, runoffCoefficient, weeklyData, monthlyData,
    \* App component state (useState hooks)
    step, inputs, results, viewMode, error

optVars == <<dailyConsumption, currentStorage, maxStorageNeeded, overflow,
             optDay, optPc, optResult>>
simVars == <<days, meanRainfall, stdDev, simI, simPc>>
aggVars == <<roofArea, runoffCoefficient, weeklyData, monthlyData>>
appVars == <<step, inputs, results, viewMode, error>>
vars == <<harvestedWater, rainfallData, optVars, simVars, aggVars, appVars>>

----------------------------------------------------------------------------
(* Bounds of the model.                                                    *)

\* longest harvested series handed to optimizeStorageCapacity
MaxLen == 3
\* largest `days` argument of simulateRainfall
MaxSimDays == 3
\* longest series (besides the 365-day year) handed to the summaries
MaxDays == 61

\* daily harvest values (litres): negative, zero, and the spec's scenarios
HarvestVals == {-10, 0, 10, 100}
\* daily consumption values: negative, zero, and the spec's scenarios
ConsVals == {-5, 0, 5, 10}

RECURSIVE SeqsUpTo(_, _)
\* all sequences over S of length at most n
SeqsUpTo(S, n) ==
    IF n = 0 THEN {<<>>}
    ELSE LET shorter == SeqsUpTo(S, n - 1)
         IN  shorter \cup {Append(s, x) : s \in {t \in shorter : Len(t) = n - 1}, x \in S}

Max(a, b) == IF a >= b THEN a ELSE b
Min(a, b) == IF a <= b THEN a ELSE b

----------------------------------------------------------------------------
(* Values the unused parts of the state hold.                              *)

NotCalled == [status |-> "notcalled", value |-> <<>>]
Null == [null |-> TRUE]
EmptyInputs == [roofArea |-> <<>>, dailyConsumption |-> <<>>, meanRainfall |-> <<>>,
                stdDev |-> <<>>, runoffCoeff |-> <<>>]

OptIdle ==
    /\ dailyConsumption = 0 /\ currentStorage = 0 /\ maxStorageNeeded = 0
    /\ overflow = 0 /\ optDay = 0 /\ optPc = "idle" /\ optResult = Null
SimIdle ==
    /\ days = 0 /\ meanRainfall = 0 /\ stdDev = 0 /\ simI = 0 /\ simPc = "idle"
AggIdle ==
    /\ roofArea = 0 /\ runoffCoefficient = 0
    /\ weeklyData = NotCalled /\ monthlyData = NotCalled
AppIdle ==
    /\ step = 1 /\ inputs = EmptyInputs /\ results = Null
    /\ viewMode = "weekly" /\ error = <<>>

----------------------------------------------------------------------------
(* optimizeStorageCapacity (RainwaterSimulation.js 26-48).  Volumes are    *)
(* finite numbers; every comparison and sum of the loop is exact on them.  *)

\* DayBeforeOverflowCheck with the floor at 0 left out
DayNoFloor(cur, mx, dailyHarvest, consumption) ==
    LET c1 == (cur + dailyHarvest) - consumption
    IN  [currentStorage |-> c1, maxStorageNeeded |-> IF c1 > mx THEN c1 ELSE mx]

\* DayBeforeOverflowCheck with the capacity fixed by the first peak
DayNoRaise(cur, mx, dailyHarvest, consumption) ==
    LET c1 == (cur + dailyHarvest) - consumption
        c2 == IF c1 < 0 THEN 0 ELSE c1
    IN  [currentStorage |-> c2,
         maxStorageNeeded |-> IF mx = 0 /\ c2 > mx THEN c2 ELSE mx]

\* DayBeforeOverflowCheck with the peak taken before the day's consumption
DayPeakBeforeConsumption(cur, mx, dailyHarvest, consumption) ==
    LET c0 == cur + dailyHarvest
        c1 == c0 - consumption
    IN  [currentStorage |-> IF c1 < 0 THEN 0 ELSE c1,
         maxStorageNeeded |-> IF c0 > mx THEN c0 ELSE mx]

\* lines 32-39: the day's inflow and outflow, the floor at 0, the raised maximum
DayBeforeOverflowCheck(cur, mx, dailyHarvest, consumption) ==
    LET c1 == (cur + dailyHarvest) - consumption
        c2 == IF c1 < 0 THEN 0 ELSE c1
        m2 == IF ~(c1 < 0) /\ c1 > mx THEN c1 ELSE mx
    IN  [currentStorage |-> c2, maxStorageNeeded |-> m2]

\* lines 32-44: one iteration of the loop body
OptimizeDay(cur, mx, ovf, dailyHarvest, consumption) ==
    LET mid == DayBeforeOverflowCheck(cur, mx, dailyHarvest, consumption)
        over == mid.currentStorage > mid.maxStorageNeeded
    IN  [currentStorage |-> IF over THEN mid.maxStorageNeeded ELSE mid.currentStorage,
         maxStorageNeeded |-> mid.maxStorageNeeded,
         overflow |-> IF over
                      THEN ovf + (mid.currentStorage - mid.maxStorageNeeded)
                      ELSE ovf]

\* lines 27-29: a call with its arguments drawn, the locals at their initial values
OptInit ==
    /\ harvestedWater \in SeqsUpTo(HarvestVals, MaxLen)
    /\ dailyConsumption \in ConsVals
    /\ currentStorage = 0 /\ maxStorageNeeded = 0 /\ overflow = 0
    /\ optDay = 0 /\ optPc = "loop" /\ optResult = Null
    /\ rainfallData = <<>>
    /\ SimIdle /\ AggIdle /\ AppIdle

\* lines 31-45: the next element of harvestedWater
OptLoop ==
    /\ optPc = "loop"
    /\ optDay < Len(harvestedWater)
    /\ LET d == OptimizeDay(currentStorage, maxStorageNeeded, overflow,
                            harvestedWater[optDay + 1], dailyConsumption)
       IN  /\ currentStorage' = d.currentStorage
           /\ maxStorageNeeded' = d.maxStorageNeeded
           /\ overflow' = d.overflow
    /\ optDay' = optDay + 1
    /\ UNCHANGED <<harvestedWater, dailyConsumption, optPc, optResult, rainfallData,
                   simVars, aggVars, appVars>>

\* line 47: the loop is exhausted
OptReturn ==
    /\ optPc = "loop"
    /\ optDay = Len(harvestedWater)
    /\ optResult' = [null |-> FALSE, maxStorageNeeded |-> maxStorageNeeded,
                     overflow |-> overflow]
    /\ optPc' = "done"
    /\ UNCHANGED <<harvestedWater, dailyConsumption, currentStorage, maxStorageNeeded,
                   overflow, optDay, rainfallData, simVars, aggVars, appVars>>

OptNext == OptLoop \/ OptReturn

SpecOpt == OptInit /\ [][OptNext]_vars

----------------------------------------------------------------------------
(* Claims about optimizeStorageCapacity, checked under SpecOpt.            *)

RECURSIVE StoredLevel(_, _, _)
\* s_0 = 0, s_k = max(0, s_{k-1} + harvested[k] - consumption)
StoredLevel(harvested, consumption, k) ==
    IF k = 0 THEN 0
    ELSE Max(0, StoredLevel(harvested, consumption, k - 1) + harvested[k] - consumption)

\* the largest stored level of days 0..k
PeakLevel(harvested, consumption, k) ==
    LET levels == {StoredLevel(harvested, consumption, j) : j \in 0..k}
    IN  CHOOSE m \in levels : \A l \in levels : l <= m

\* C1: after every day, and in the returned result, maxStorageNeeded is the
\* running maximum of the stored level s_k (0 for the empty series); the
\* series [10,10,10] with consumption 5 returns 15 and [100,0,0] with
\* consumption 10 returns 90.
C1_MaxIsRunningPeak ==
    /\ maxStorageNeeded = PeakLevel(harvestedWater, dailyConsumption, optDay)
    /\ optPc = "done" =>
          /\ optResult.maxStorageNeeded =
                PeakLevel(harvestedWater, dailyConsumption, Len(harvestedWater))
          /\ harvestedWater = <<>> => optResult.maxStorageNeeded = 0
          /\ (harvestedWater = <<10, 10, 10>> /\ dailyConsumption = 5)
                => optResult.maxStorageNeeded = 15
          /\ (harvestedWater = <<100, 0, 0>> /\ dailyConsumption = 10)
                => optResult.maxStorageNeeded = 90

\* the second scenario has run to its return, past a day below the peak
C1_Witness ==
    /\ optPc = "done"
    /\ harvestedWater = <<100, 0, 0>> /\ dailyConsumption = 10
    /\ currentStorage = 70
    /\ optResult.maxStorageNeeded = 90

\* C2: overflow stays 0 throughout and in the returned result: whenever a
\* day's overflow check is evaluated, currentStorage <= maxStorageNeeded.
C2_OverflowAlwaysZero ==
    /\ overflow = 0
    /\ optPc = "done" => optResult.overflow = 0
    /\ (optPc = "loop" /\ optDay < Len(harvestedWater)) =>
          LET mid == DayBeforeOverflowCheck(currentStorage, maxStorageNeeded,
                                            harvestedWater[optDay + 1], dailyConsumption)
          IN  mid.currentStorage <= mid.maxStorageNeeded

\* a returned call whose second day tied the maximum and whose third day set
\* a larger peak
C2_Witness ==
    /\ optPc = "done" /\ Len(harvestedWater) = 3
    /\ StoredLevel(harvestedWater, dailyConsumption, 1) > 0
    /\ StoredLevel(harvestedWater, dailyConsumption, 2)
          = StoredLevel(harvestedWater, dailyConsumption, 1)
    /\ StoredLevel(harvestedWater, dailyConsumption, 3)
          > StoredLevel(harvestedWater, dailyConsumption, 2)
    /\ optResult.overflow = 0

\* C3: after every iteration and in the returned result, maxStorageNeeded >= 0,
\* overflow >= 0 and 0 <= currentStorage <= maxStorageNeeded, also for negative
\* harvested values and dailyConsumption <= 0.
C3_StorageWithinBounds ==
    /\ maxStorageNeeded >= 0
    /\ overflow >= 0
    /\ 0 <= currentStorage /\ currentStorage <= maxStorageNeeded
    /\ optPc = "done" =>
          optResult.maxStorageNeeded >= 0 /\ optResult.overflow >= 0

\* a returned call with a negative harvest, a consumption <= 0, a day floored
\* at 0 and a day that ended below the maximum
C3_Witness ==
    /\ optPc = "done"
    /\ dailyConsumption <= 0
    /\ \E i \in 1..Len(harvestedWater) :
          /\ harvestedWater[i] < 0
          /\ StoredLevel(harvestedWater, dailyConsumption, i - 1)
                + harvestedWater[i] - dailyConsumption < 0
    /\ currentStorage < maxStorageNeeded

----------------------------------------------------------------------------
(* simulateRainfall (RainwaterSimulation.js 7-18).  A JavaScript number is *)
(* a finite value, NaN, Infinity or -Infinity; the arithmetic below is     *)
(* IEEE 754 on those four kinds.                                           *)

Num(n) == [k |-> "num", v |-> n]
NaN == [k |-> "nan", v |-> 0]
PosInf == [k |-> "inf", v |-> 1]
NegInf == [k |-> "inf", v |-> -1]

Sign(n) == IF n > 0 THEN 1 ELSE IF n < 0 THEN -1 ELSE 0

\* a * b
XMul(a, b) ==
    IF a.k = "nan" \/ b.k = "nan" THEN NaN
    ELSE IF a.k = "inf" \/ b.k = "inf"
         THEN LET sg == Sign(a.v) * Sign(b.v)
              IN  IF sg = 0 THEN NaN ELSE IF sg > 0 THEN PosInf ELSE NegInf
         ELSE Num(a.v * b.v)

\* a + b
XAdd(a, b) ==
    IF a.k = "nan" \/ b.k = "nan" THEN NaN
    ELSE IF a.k = "inf" /\ b.k = "inf" THEN (IF a.v = b.v THEN a ELSE NaN)
    ELSE IF a.k = "inf" THEN a
    ELSE IF b.k = "inf" THEN b
    ELSE Num(a.v + b.v)

\* Math.random() for u1: 0 itself, or exp(-negExp) for a drawn exponent
U1Draws == {[zero |-> TRUE, negExp |-> 0]} \cup
           {[zero |-> FALSE, negExp |-> n] : n \in {2, 8, 18}}
\* Math.random() for u2, in half turns: 0 and 1/2
U2Draws == {0, 1}

\* Math.log(u1): -Infinity at 0
MathLog(u) == IF u.zero THEN NegInf ELSE Num(-u.negExp)

\* Math.sqrt(x), on the squares the draws produce
MathSqrt(x) ==
    IF x.k = "nan" THEN NaN
    ELSE IF x.k = "inf" THEN (IF x.v > 0 THEN PosInf ELSE NaN)
    ELSE IF x.v < 0 THEN NaN
    ELSE Num(CHOOSE r \in 0..x.v : r * r = x.v)

\* Math.cos(2.0 * Math.PI * u2): cos 0 = 1, cos pi = -1
MathCosTwoPi(halfTurns) == Num(IF halfTurns % 2 = 0 THEN 1 ELSE -1)

\* Math.max(0, x): NaN if x is NaN
MathMaxZero(x) ==
    IF x.k = "nan" THEN NaN
    ELSE IF x.k = "inf" THEN (IF x.v > 0 THEN PosInf ELSE Num(0))
    ELSE Num(Max(0, x.v))

\* lines 13-14: the Box-Muller variate and the day's clipped sample
RainSample(u1, u2, mean, sd) ==
    LET z == XMul(MathSqrt(XMul(Num(-2), MathLog(u1))), MathCosTwoPi(u2))
    IN  MathMaxZero(XAdd(Num(mean), XMul(Num(sd), z)))

\* mean and standard deviation arguments (mm)
MeanVals == {-3, 0, 5}
StdDevVals == {0, 2}

\* line 8: a call with its arguments drawn
SimInit ==
    /\ days \in 1..MaxSimDays
    /\ meanRainfall \in MeanVals
    /\ stdDev \in StdDevVals
    /\ rainfallData = <<>> /\ simI = 0 /\ simPc = "loop"
    /\ harvestedWater = <<>>
    /\ OptIdle /\ AggIdle /\ AppIdle

\* lines 9-16: one day, with the two uniform draws of the day
SimLoop ==
    /\ simPc = "loop"
    /\ simI < days
    /\ \E u1 \in U1Draws, u2 \in U2Draws :
          rainfallData' = Append(rainfallData, RainSample(u1, u2, meanRainfall, stdDev))
    /\ simI' = simI + 1
    /\ UNCHANGED <<days, meanRainfall, stdDev, simPc, harvestedWater,
                   optVars, aggVars, appVars>>

\* line 17
SimReturn ==
    /\ simPc = "loop"
    /\ ~(simI < days)
    /\ simPc' = "done"
    /\ UNCHANGED <<days, meanRainfall, stdDev, simI, rainfallData, harvestedWater,
                   optVars, aggVars, appVars>>

SimNext == SimLoop \/ SimReturn

SpecSim == SimInit /\ [][SimNext]_vars

----------------------------------------------------------------------------
(* Claims about simulateRainfall, checked under SpecSim.                   *)

\* x >= 0 as JavaScript evaluates it: false for NaN
GeZero(x) == (x.k = "num" /\ x.v >= 0) \/ x = PosInf

\* Number.isFinite(x)
IsFinite(x) == x.k = "num"

\* C4: the returned series has length exactly days and every element is >= 0,
\* for every pair of uniform draws, u1 = 0 included.
C4_SeriesNonNegative ==
    simPc = "done" =>
        /\ Len(rainfallData) = days
        /\ \A i \in 1..Len(rainfallData) : GeZero(rainfallData[i])

\* C5: the u1 = 0 draw is guarded, so no element of the series is NaN or
\* infinite, for any stdDev (0 included).
C5_SamplesFinite ==
    \A i \in 1..Len(rainfallData) : IsFinite(rainfallData[i])

----------------------------------------------------------------------------
(* calculateHarvestedWater, getWeeklyData and getMonthlyData               *)
(* (RainwaterSimulation.js 20-24, 50-86).  Rainfall and volumes are held   *)
(* in thousandths (60 is 0.06), the runoff coefficient in tenths; a        *)
(* toFixed(1) string d.t is held as its number of tenths.                  *)

\* line 64
period == 30
\* line 52: the bound of the weekly loop
WeekDays == 7
\* part_000 line 97: the number of days App simulates
DaysPerYear == 365

\* x.toFixed(1) rounding up to the next tenth instead of to the nearest
ToFixed1Ceil(x) == IF x >= 0 THEN (x + 99) \div 100 ELSE -((-x) \div 100)

\* x.toFixed(1): the nearest tenth, a tie going away from zero
ToFixed1(x) == IF x >= 0 THEN (x + 50) \div 100 ELSE -((-x + 50) \div 100)

\* arr[i], 0-based: undefined past the end
Get(arr, i) ==
    IF i + 1 \in 1..Len(arr) THEN [defined |-> TRUE, v |-> arr[i + 1]]
    ELSE [defined |-> FALSE, v |-> 0]

\* arr.slice(startIdx, endIdx), 0-based, endIdx exclusive and cut at the end
Slice(arr, startIdx, endIdx) == SubSeq(arr, startIdx + 1, Min(endIdx, Len(arr)))

RECURSIVE ReduceSum(_, _)
\* arr.reduce((sum, val) => sum + val, sum)
ReduceSum(arr, sum) ==
    IF arr = <<>> THEN sum ELSE ReduceSum(Tail(arr), sum + Head(arr))

\* lines 20-24
calculateHarvestedWater(rain, area, coefficient) ==
    [i \in 1..Len(rain) |-> (rain[i] * area * coefficient) \div 10]

Threw == [status |-> "threw", value |-> <<>>]

\* WeeklyEntry reading a missing day as 0
WeeklyEntryDefaultZero(rain, harv, i) ==
    [threw |-> FALSE,
     entry |-> [day |-> i + 1,
                rainfall |-> ToFixed1(Get(rain, i).v),
                harvestedWater |-> ToFixed1(Get(harv, i).v)]]

\* WeeklyEntry reading the day after
WeeklyEntryOffByOne(rain, harv, i) ==
    LET r == Get(rain, i + 1)
        h == Get(harv, i + 1)
    IN  IF ~r.defined \/ ~h.defined
        THEN [threw |-> TRUE, entry |-> <<>>]
        ELSE [threw |-> FALSE,
              entry |-> [day |-> i + 1, rainfall |-> ToFixed1(r.v),
                         harvestedWater |-> ToFixed1(h.v)]]

\* lines 53-57: the entry of day i (0-based); undefined.toFixed throws a TypeError
WeeklyEntry(rain, harv, i) ==
    LET r == Get(rain, i)
        h == Get(harv, i)
    IN  IF ~r.defined \/ ~h.defined
        THEN [threw |-> TRUE, entry |-> <<>>]
        ELSE [threw |-> FALSE,
              entry |-> [day |-> i + 1, rainfall |-> ToFixed1(r.v),
                         harvestedWater |-> ToFixed1(h.v)]]

RECURSIVE WeeklyLoop(_, _, _, _)
\* lines 52-59: the loop from i, with the entries pushed so far
WeeklyLoop(rain, harv, i, acc) ==
    IF ~(i < WeekDays) THEN [status |-> "returned", value |-> acc]
    ELSE LET e == WeeklyEntry(rain, harv, i)
         IN  IF e.threw THEN Threw
             ELSE WeeklyLoop(rain, harv, i + 1, Append(acc, e.entry))

\* lines 50-60
getWeeklyData(rain, harv) == WeeklyLoop(rain, harv, 0, <<>>)

\* numMonths counting the last, partial block too
NumMonthsCeil(len) == (len + period - 1) \div period

\* line 65
NumMonths(len) == len \div period

\* lines 68-83: the entry of block i (0-based)
MonthlyEntry(rain, harv, i) ==
    LET startIdx == i * period
        endIdx == startIdx + period
        periodRainfall == ReduceSum(Slice(rain, startIdx, endIdx), 0)
        periodHarvested == ReduceSum(Slice(harv, startIdx, endIdx), 0)
    IN  [month |-> i + 1, rainfall |-> ToFixed1(periodRainfall),
         harvestedWater |-> ToFixed1(periodHarvested)]

\* lines 62-86
getMonthlyData(rain, harv) ==
    [status |-> "returned",
     value |-> [m \in 1..NumMonths(Len(rain)) |-> MonthlyEntry(rain, harv, m - 1)]]

\* series lengths: every length up to MaxDays, and the year App simulates
SeriesLengths == (0..MaxDays) \cup {DaysPerYear}
\* daily rainfall of an ordinary day and of the one marked day (thousandths of mm)
BaseRain == {0, 20}
MarkedRain == {50, 60, 1040}
\* the marked day: none (0), or a day at the edge of a week or of a 30-day block
MarkedDays == {0, 1, 7, 8, 30, 31, 60, 61}
\* the harvester's fields: roof area (m2), runoff coefficient (tenths)
RoofAreas == {50}
RunoffCoefficients == {8, 10}

RainSeries(n, base, p, w) == [i \in 1..n |-> IF i = p THEN w ELSE base]

\* the arguments of the summaries: a rainfall series with its harvested series
\* (as App passes them), or either one cut short of a week
AggInit ==
    /\ roofArea \in RoofAreas
    /\ runoffCoefficient \in RunoffCoefficients
    /\ \E n \in SeriesLengths, base \in BaseRain, p \in MarkedDays, w \in MarkedRain :
          LET rain == RainSeries(n, base, p, w)
              harv == calculateHarvestedWater(rain, roofArea, runoffCoefficient)
              short == Min(n, WeekDays - 1)
          IN  \/ rainfallData = rain /\ harvestedWater = harv
              \/ rainfallData = rain /\ harvestedWater = SubSeq(harv, 1, short)
              \/ rainfallData = SubSeq(rain, 1, short) /\ harvestedWater = harv
    /\ weeklyData = NotCalled /\ monthlyData = NotCalled
    /\ OptIdle /\ SimIdle /\ AppIdle

\* a call of getWeeklyData: it returns the seven entries or throws
GetWeeklyData ==
    /\ weeklyData.status = "notcalled"
    /\ weeklyData' = getWeeklyData(rainfallData, harvestedWater)
    /\ UNCHANGED <<rainfallData, harvestedWater, roofArea, runoffCoefficient,
                   monthlyData, optVars, simVars, appVars>>

\* a call of getMonthlyData
GetMonthlyData ==
    /\ monthlyData.status = "notcalled"
    /\ monthlyData' = getMonthlyData(rainfallData, harvestedWater)
    /\ UNCHANGED <<rainfallData, harvestedWater, roofArea, runoffCoefficient,
                   weeklyData, optVars, simVars, appVars>>

AggNext == GetWeeklyData \/ GetMonthlyData

SpecAgg == AggInit /\ [][AggNext]_vars

----------------------------------------------------------------------------
(* Claims about the summaries, checked under SpecAgg.                      *)

RECURSIVE SumDays(_, _, _)
\* arr[lo] + ... + arr[hi], 1-based
SumDays(arr, lo, hi) ==
    IF hi < lo THEN 0
    ELSE IF lo = hi THEN arr[lo]
    ELSE LET mid == (lo + hi) \div 2
         IN  SumDays(arr, lo, mid) + SumDays(arr, mid + 1, hi)

\* the tenth nearest to x >= 0 (in thousandths), the larger one on a tie
NearestTenth(x) ==
    LET below == x \div 100
    IN  IF x - 100 * below >= 50 THEN below + 1 ELSE below

RECURSIVE SumMonthlyRainfall(_)
\* the rainfall values of the returned monthly entries, added up (tenths)
SumMonthlyRainfall(entries) ==
    IF entries = <<>> THEN 0
    ELSE entries[Len(entries)].rainfall
            + SumMonthlyRainfall(SubSeq(entries, 1, Len(entries) - 1))

\* C6: for series of equal length n, getMonthlyData returns floor(n/30)
\* entries with month 1..k in order; entry i carries the one-decimal rounding
\* of the sums of rainfall and harvested over days 30(i-1)+1..30i, so the
\* trailing n mod 30 days reach no entry (365 days: 12 entries; n < 30: none).
C6_MonthlyBlocks ==
    (monthlyData.status = "returned" /\ Len(rainfallData) = Len(harvestedWater)) =>
        LET n == Len(rainfallData)
            m == monthlyData.value
        IN  /\ Len(m) = n \div 30
            /\ n = 365 => Len(m) = 12
            /\ n < 30 => m = <<>>
            /\ \A i \in 1..Len(m) :
                  /\ m[i].month = i
                  /\ m[i].rainfall =
                        NearestTenth(SumDays(rainfallData, 30 * (i - 1) + 1, 30 * i))
                  /\ m[i].harvestedWater =
                        NearestTenth(SumDays(harvestedWater, 30 * (i - 1) + 1, 30 * i))

\* the monthly summary of a 365-day year with rain on every day
C6_Witness ==
    /\ monthlyData.status = "returned"
    /\ Len(rainfallData) = 365 /\ Len(harvestedWater) = 365
    /\ Len(monthlyData.value) = 12
    /\ monthlyData.value[12].rainfall > 0
    /\ rainfallData[365] > 0

\* C7 as stated: the returned monthly rainfall values add up to at most the
\* total rainfall of the series, and to strictly less whenever the number of
\* days is not a multiple of 30.
C7_MonthlySumAtMostTotal ==
    monthlyData.status = "returned" =>
        LET total == SumDays(rainfallData, 1, Len(rainfallData))
            monthly == 100 * SumMonthlyRainfall(monthlyData.value)
        IN  /\ monthly <= total
            /\ Len(rainfallData) % 30 # 0 => monthly < total

\* C7 as amended: the returned monthly rainfall values add up to within 0.05
\* per entry of the rainfall of the first 30*floor(n/30) days, hence to at most
\* the total rainfall + 0.05 per entry, and to strictly less than the total
\* when the dropped trailing days carry more rain than 0.05 per entry.
C7_MonthlySumWithinRounding ==
    monthlyData.status = "returned" =>
        LET n == Len(rainfallData)
            k == Len(monthlyData.value)
            total == SumDays(rainfallData, 1, n)
            covered == SumDays(rainfallData, 1, 30 * k)
            monthly == 100 * SumMonthlyRainfall(monthlyData.value)
        IN  /\ 30 * k <= n
            /\ monthly <= covered + 50 * k
            /\ covered - 50 * k <= monthly
            /\ monthly <= total + 50 * k
            /\ total - covered > 50 * k => monthly < total

\* a summary of two months whose entries, rounded up, add up to more than the
\* whole series' rainfall
C7_Witness ==
    /\ monthlyData.status = "returned"
    /\ Len(monthlyData.value) = 2
    /\ 100 * SumMonthlyRainfall(monthlyData.value)
          > SumDays(rainfallData, 1, Len(rainfallData))

\* C8: for series of at least 7 days, getWeeklyData returns exactly 7 entries
\* with day 1..7 in order, carrying the one-decimal roundings of rainfall[i]
\* and harvested[i]; later days do not reach the result.
C8_WeeklyFirstSeven ==
    (weeklyData.status # "notcalled"
        /\ Len(rainfallData) >= 7 /\ Len(harvestedWater) >= 7) =>
        /\ weeklyData.status = "returned"
        /\ Len(weeklyData.value) = 7
        /\ \A i \in 1..7 :
              /\ weeklyData.value[i].day = i
              /\ weeklyData.value[i].rainfall = NearestTenth(rainfallData[i])
              /\ weeklyData.value[i].harvestedWater = NearestTenth(harvestedWater[i])

\* the weekly summary of a 365-day year whose day 8 differs from day 7
C8_Witness ==
    /\ weeklyData.status = "returned"
    /\ Len(rainfallData) = 365 /\ Len(harvestedWater) = 365
    /\ rainfallData[8] # rainfallData[7]
    /\ weeklyData.value[7].rainfall = NearestTenth(rainfallData[7])
    /\ weeklyData.value[7].rainfall # NearestTenth(rainfallData[8])

\* C9: with fewer than 7 days in either series getWeeklyData throws and
\* returns nothing; a returned summary always has 7 entries.
C9_WeeklyThrowsWhenShort ==
    /\ (weeklyData.status # "notcalled"
          /\ (Len(rainfallData) < 7 \/ Len(harvestedWater) < 7)) =>
          weeklyData.status = "threw" /\ weeklyData.value = <<>>
    /\ weeklyData.status = "returned" => Len(weeklyData.value) = 7

\* a call that threw on the seventh day of a harvested series of six days
C9_Witness ==
    /\ weeklyData.status = "threw"
    /\ Len(rainfallData) >= 7
    /\ Len(harvestedWater) = 6

----------------------------------------------------------------------------
(* The input wizard of App (part_000 23-126, 236-249, 305-348).  An input  *)
(* string is a sequence of characters; parseFloat reads it as the exact    *)
(* fraction num/den.                                                       *)

Digits == {"0", "1", "2", "3", "4", "5", "6", "7", "8", "9"}

DigitValue(c) ==
    CASE c = "0" -> 0 [] c = "1" -> 1 [] c = "2" -> 2 [] c = "3" -> 3
      [] c = "4" -> 4 [] c = "5" -> 5 [] c = "6" -> 6 [] c = "7" -> 7
      [] c = "8" -> 8 [] c = "9" -> 9

RECURSIVE DigitRun(_)
\* the longest prefix of str made of digits
DigitRun(str) ==
    IF str # <<>> /\ Head(str) \in Digits THEN <<Head(str)>> \o DigitRun(Tail(str))
    ELSE <<>>

RECURSIVE DigitsValue(_)
DigitsValue(ds) ==
    IF ds = <<>> THEN 0
    ELSE 10 * DigitsValue(SubSeq(ds, 1, Len(ds) - 1)) + DigitValue(ds[Len(ds)])

RECURSIVE PowerOfTen(_)
PowerOfTen(n) == IF n = 0 THEN 1 ELSE 10 * PowerOfTen(n - 1)

NotANumber == [nan |-> TRUE, num |-> 0, den |-> 1]

\* parseFloat(str): an optional sign, digits, an optional fraction; the longest
\* such prefix is read, and NaN results when it holds no digit
parseFloat(str) ==
    LET signed == str # <<>> /\ Head(str) \in {"-", "+"}
        sign == IF str # <<>> /\ Head(str) = "-" THEN -1 ELSE 1
        body == IF signed THEN Tail(str) ELSE str
        intDigits == DigitRun(body)
        rest == SubSeq(body, Len(intDigits) + 1, Len(body))
        fracDigits == IF rest # <<>> /\ Head(rest) = "." THEN DigitRun(Tail(rest))
                      ELSE <<>>
    IN  IF intDigits = <<>> /\ fracDigits = <<>> THEN NotANumber
        ELSE [nan |-> FALSE,
              num |-> sign * (DigitsValue(intDigits) * PowerOfTen(Len(fracDigits))
                              + DigitsValue(fracDigits)),
              den |-> PowerOfTen(Len(fracDigits))]

\* lines 47-53: the input of each step and its label
InputNames == <<"roofArea", "dailyConsumption", "meanRainfall", "stdDev", "runoffCoeff">>
InputLabels == <<"Roof Area", "Daily Consumption", "Average Daily Rainfall",
                 "Rainfall Variation", "Runoff Coefficient">>

\* validateStep without the range check of the runoff coefficient
validateStepNoRange(s, inp) ==
    LET value == parseFloat(inp[InputNames[s]])
    IN  IF value.nan \/ value.num = 0
        THEN [ok |-> FALSE, error |-> <<"Please enter a valid number for ", InputLabels[s]>>]
        ELSE IF value.num <= 0
        THEN [ok |-> FALSE, error |-> <<InputLabels[s], " must be greater than 0">>]
        ELSE [ok |-> TRUE, error |-> <<>>]

\* lines 46-73: the verdict on the input of step s, with the error it sets
validateStep(s, inp) ==
    LET value == parseFloat(inp[InputNames[s]])
    IN  IF value.num = 0 \/ value.nan
        THEN [ok |-> FALSE, error |-> <<"Please enter a valid number for ", InputLabels[s]>>]
        ELSE IF value.num <= 0
        THEN [ok |-> FALSE, error |-> <<InputLabels[s], " must be greater than 0">>]
        ELSE IF InputNames[s] = "runoffCoeff" /\ (value.num < 0 \/ value.num > value.den)
        THEN [ok |-> FALSE, error |-> <<"Runoff Coefficient must be between 0 and 1">>]
        ELSE [ok |-> TRUE, error |-> <<>>]

\* lines 90-123: the results object; the figures of the random year are held
\* by the parsed arguments the harvester computes them from
calculateResults(inp) ==
    [null |-> FALSE,
     roofArea |-> parseFloat(inp.roofArea),
     runoffCoefficient |-> parseFloat(inp.runoffCoeff),
     days |-> DaysPerYear,
     meanRainfall |-> parseFloat(inp.meanRainfall),
     stdDev |-> parseFloat(inp.stdDev),
     dailyConsumption |-> parseFloat(inp.dailyConsumption)]

\* values a number input can hand to handleInputChange: "", "0", "-1", "0.5", "1", "2"
InputStrings == {<<>>, <<"0">>, <<"-", "1">>, <<"0", ".", "5">>, <<"1">>, <<"2">>}

\* lines 24-35
AppInit ==
    /\ step = 1 /\ inputs = EmptyInputs /\ results = Null
    /\ viewMode = "weekly" /\ error = <<>>
    /\ harvestedWater = <<>> /\ rainfallData = <<>>
    /\ OptIdle /\ SimIdle /\ AggIdle

\* lines 37-44: a change of the one input rendered (lines 217-221), that of the step
HandleInputChange ==
    /\ step < 6
    /\ \E value \in InputStrings :
          inputs' = [inputs EXCEPT ![InputNames[step]] = value]
    /\ error' = <<>>
    /\ UNCHANGED <<step, results, viewMode, harvestedWater, rainfallData,
                   optVars, simVars, aggVars>>

\* lines 75-83, with calculateResults (lines 90-126) when step 5 is valid
HandleNext ==
    /\ step < 6
    /\ LET v == validateStep(step, inputs)
       IN  IF ~v.ok
           THEN /\ error' = v.error
                /\ UNCHANGED <<step, results>>
           ELSE IF step < 5
           THEN /\ step' = step + 1
                /\ UNCHANGED <<error, results>>
           ELSE /\ results' = calculateResults(inputs)
                /\ step' = 6
                /\ UNCHANGED error
    /\ UNCHANGED <<inputs, viewMode, harvestedWater, rainfallData,
                   optVars, simVars, aggVars>>

\* lines 85-88; the Back button is rendered for 1 < step < 6 (lines 236-243, 275)
HandleBack ==
    /\ step > 1 /\ step < 6
    /\ step' = step - 1
    /\ error' = <<>>
    /\ UNCHANGED <<inputs, results, viewMode, harvestedWater, rainfallData,
                   optVars, simVars, aggVars>>

\* lines 305-324: the Weekly and Monthly buttons of the results page
SetViewMode ==
    /\ ~(step < 6)
    /\ \E mode \in {"weekly", "monthly"} : viewMode' = mode
    /\ UNCHANGED <<step, inputs, results, error, harvestedWater, rainfallData,
                   optVars, simVars, aggVars>>

\* lines 333-348: Calculate Again
CalculateAgain ==
    /\ ~(step < 6)
    /\ step' = 1
    /\ inputs' = EmptyInputs
    /\ results' = Null
    /\ UNCHANGED <<viewMode, error, harvestedWater, rainfallData,
                   optVars, simVars, aggVars>>

AppNext == HandleInputChange \/ HandleNext \/ HandleBack \/ SetViewMode \/ CalculateAgain

SpecApp == AppInit /\ [][AppNext]_vars

----------------------------------------------------------------------------
(* Claims about the wizard, checked under SpecApp.                         *)

\* input k parses to a number > 0, the runoff coefficient to one <= 1 as well
InputValid(k, inp) ==
    LET value == parseFloat(inp[InputNames[k]])
    IN  /\ ~value.nan
        /\ value.num > 0
        /\ k = 5 => value.num <= value.den

WizardInvariant ==
    /\ step \in 1..6
    /\ step = 6 => results # Null
    /\ \A k \in 1..5 : k < step => InputValid(k, inputs)

WizardStep ==
    \* calculateResults (the only way to step 6) runs from step 5, all inputs valid
    /\ (step' = 6 /\ step # 6) =>
          /\ step = 5
          /\ \A k \in 1..5 : InputValid(k, inputs)
          /\ results' # Null
    \* an input changes only while its own step is shown, or by Calculate Again
    /\ \A k \in 1..5 :
          inputs'[InputNames[k]] # inputs[InputNames[k]] =>
              step = k \/ (step = 6 /\ inputs' = EmptyInputs)
    \* Next advances from step k only if input k is valid
    /\ step' = step + 1 => InputValid(step, inputs)

\* C10: calculateResults runs only from step 5 and only with all five inputs
\* valid (> 0, runoffCoeff <= 1); an input is edited only at its own step,
\* Next advances only past a valid input, every input below the current step
\* is valid, step stays within 1..6 and step = 6 implies results is non-null.
C10_WizardValidates == []WizardInvariant /\ [][WizardStep]_vars

\* the results page, reached with a runoff coefficient below 1
C10_Witness ==
    /\ step = 6
    /\ results # Null
    /\ \A k \in 1..5 : InputValid(k, inputs)
    /\ inputs.runoffCoeff = <<"0", ".", "5">>

====
